---------------------------- MODULE Spec2Model ----------------------------
(***************************************************************************)
(* A model of the Data Transfer Unit of src/mem/dtu/dtu.cc: the command    *)
(* decoder and dispatcher, the transmit pipeline (scratchpad read -> NoC   *)
(* write -> finish), the receive pipeline (NoC frame -> scratchpad write   *)
(* -> write pointer advance), the ring-buffer arithmetic and the sender    *)
(* states (tags) that travel with the packets.                             *)
(*                                                                         *)
(* One DTU is modelled.  Its environment is the local core (register       *)
(* accesses), the scratchpad (answers every request), the NoC and the      *)
(* remote DTUs (which run the same code: they accept the frames this DTU   *)
(* sends and send it frames built by their completeLocalSpmRequest).       *)
(* Simulated time is abstracted: whatever is scheduled is pending and the  *)
(* pending things fire in any order.                                       *)
(*                                                                         *)
(* assert() and panic() halt the simulation: the model records the first   *)
(* one in `fault` and nothing happens afterwards.                          *)
(***************************************************************************)
EXTENDS Integers, Sequences, FiniteSets, TLC

\* ------------------------------------------------------------------ bounds
\* Register writes of the local core to the command register, per run.
MaxCmdWrites == 2
\* Message frames the remote DTUs send to this DTU, per run.
MaxInbound == 2
\* Largest receive buffer (in slots) an endpoint is configured with.
MaxSlots == 2

\* ------------------------------------------------- configuration of the DTU
\* p->num_endpoints
numEndpoints == 2
\* p->max_message_size: the size of one slot of a receive buffer
maxMessageSize == 8
\* p->num_cmd_offset_bits
numCmdOffsetBits == 2
\* sizeof(MessageHeader): uint8_t coreId, uint8_t epId, uint16_t length
sizeofMessageHeader == 4
\* BaseDtu::coreId of the modelled DTU, and the core id of a remote DTU
coreId == 0
remoteCoreId == 1
\* BaseDtu::nocEpAddrBits: the low bits of a NoC address hold the endpoint id
nocEpAddrBits == 2
\* Widths <<numCmdOpcodeBits, numCmdEpidBits>> the DTU may be built with.
CmdBitsChoices == {<<2, 2>>, <<2, 3>>}

Endpoints == 0 .. (numEndpoints - 1)

\* enum CommandOpcode
IDLE == 0
START_OPERATION == 1
INC_READ_PTR == 2

NoFault == "none"

VARIABLES
    \* --- configuration, fixed by the constructor
    atomicMode,          \* p->system->isAtomicMode()
    numCmdOpcodeBits,    \* Dtu::numCmdOpcodeBits
    numCmdEpidBits,      \* p->num_cmd_epid_bits
    epInit,              \* the endpoint registers as software configured them
    \* --- state of the unit
    regFile,             \* [dtu: COMMAND, STATUS; ep: the endpoint registers]
    executeCommandEvent,             \* scheduled?
    finishMessageTransmissionEvent,  \* scheduled?
    incrementWritePtrEvent,          \* [scheduled, epId]
    spmQueue,            \* scratchpad requests issued and not yet completed
    nocQueue,            \* NoC requests issued and not yet acknowledged
    fault,               \* the assert or panic that halted the simulation
    \* --- history, read by the properties only
    ops,                 \* [tx, rx]: one record per transmit / receive started
    tagPops,             \* sender state id -> number of popSenderState calls
    tagLeaked,           \* sender states still on a packet when it was deleted
    nProduced,           \* endpoint -> completed incrementWritePtr calls
    nConsumed,           \* endpoint -> completed incrementReadPtr calls
    nCmdWrites,          \* writes of the local core to the command register
    nInbound,            \* frames received from the NoC
    nDispatch,           \* calls of executeCommand
    lastCmd,             \* the {opcode, epId, offset} the core last wrote
    lastDispatch         \* the {opcode, epId} executeCommand last decoded

cfgVars == <<atomicMode, numCmdOpcodeBits, numCmdEpidBits, epInit>>
vars == <<atomicMode, numCmdOpcodeBits, numCmdEpidBits, epInit,
          regFile, executeCommandEvent, finishMessageTransmissionEvent,
          incrementWritePtrEvent, spmQueue, nocQueue, fault,
          ops, tagPops, tagLeaked, nProduced, nConsumed, nCmdWrites,
          nInbound, nDispatch, lastCmd, lastDispatch>>

\* The state the handlers work on, as one record.
Cur ==
    [regFile |-> regFile,
     executeCommandEvent |-> executeCommandEvent,
     finishMessageTransmissionEvent |-> finishMessageTransmissionEvent,
     incrementWritePtrEvent |-> incrementWritePtrEvent,
     spmQueue |-> spmQueue, nocQueue |-> nocQueue, fault |-> fault,
     ops |-> ops, tagPops |-> tagPops,
     tagLeaked |-> tagLeaked, nProduced |-> nProduced,
     nConsumed |-> nConsumed, nCmdWrites |-> nCmdWrites,
     nInbound |-> nInbound, nDispatch |-> nDispatch, lastCmd |-> lastCmd,
     lastDispatch |-> lastDispatch]

Commit(s) ==
    /\ regFile' = s.regFile
    /\ executeCommandEvent' = s.executeCommandEvent
    /\ finishMessageTransmissionEvent' = s.finishMessageTransmissionEvent
    /\ incrementWritePtrEvent' = s.incrementWritePtrEvent
    /\ spmQueue' = s.spmQueue
    /\ nocQueue' = s.nocQueue
    /\ fault' = s.fault
    /\ ops' = s.ops
    /\ tagPops' = s.tagPops
    /\ tagLeaked' = s.tagLeaked
    /\ nProduced' = s.nProduced
    /\ nConsumed' = s.nConsumed
    /\ nCmdWrites' = s.nCmdWrites
    /\ nInbound' = s.nInbound
    /\ nDispatch' = s.nDispatch
    /\ lastCmd' = s.lastCmd
    /\ lastDispatch' = s.lastDispatch
    /\ UNCHANGED cfgVars

\* assert(cond) failing, or panic(): the simulation halts with this error.
Fail(s, err) == [s EXCEPT !.fault = err]

\* ------------------------------------------------------------- arithmetic
ShiftLeft(x, n) == x * (2 ^ n)
ShiftRight(x, n) == x \div (2 ^ n)

RECURSIVE BitAnd(_, _)
BitAnd(a, b) ==
    IF a = 0 \/ b = 0 THEN 0
    ELSE (a % 2) * (b % 2) + 2 * BitAnd(a \div 2, b \div 2)

\* ---------------------------------------------------------- register file
readDtuReg(s, reg) == s.regFile.dtu[reg]
setDtuReg(s, reg, value) == [s EXCEPT !.regFile.dtu[reg] = value]
readEpReg(s, epId, reg) == s.regFile.ep[epId][reg]
setEpReg(s, epId, reg, value) == [s EXCEPT !.regFile.ep[epId][reg] = value]


\* ------------------------------------------------------- packets and tags
NoHeader == [coreId |-> 0, epId |-> 0, length |-> 0]

\* Dtu::generateRequest: a new request packet, no sender state on it yet.
generateRequest(op, paddr, size, cmd) ==
    [op |-> op, cmd |-> cmd, addr |-> paddr, size |-> size,
     header |-> NoHeader, isResponse |-> FALSE, senderState |-> <<>>]

\* Packet::pushSenderState / popSenderState: a stack, the newest state on top.
pushSenderState(pkt, senderState) ==
    [pkt EXCEPT !.senderState = <<senderState>> \o @]
topSenderState(pkt) == Head(pkt.senderState)
popSenderState(pkt) == [pkt EXCEPT !.senderState = Tail(@)]

\* new SpmSenderState() / new NocSenderState(): the tag starts its life.
newSenderState(s, id) == [s EXCEPT !.tagPops = @ @@ (id :> 0)]
\* The tag was taken off its packet (and is deleted by the caller).
consumeSenderState(s, id) == [s EXCEPT !.tagPops[id] = @ + 1]
\* delete pkt, or the packet goes back to where it came from: whatever
\* sender state is still on it is never consumed.
releasePacket(s, pkt) ==
    [s EXCEPT !.tagLeaked =
        @ \cup {pkt.senderState[i].id : i \in DOMAIN pkt.senderState}]

\* The scratchpad and the NoC turn a request into its response.
makeResponse(pkt) == [pkt EXCEPT !.isResponse = TRUE]

\* BaseDtu::getNocAddr: core id above the nocEpAddrBits bits of the endpoint.
getNocAddr(targetCoreId, targetEpId) ==
    ShiftLeft(targetCoreId, nocEpAddrBits) + targetEpId

\* EventManager::schedule of one of the unit's events (each event is one
\* object: scheduling it while it is scheduled trips the event queue's
\* assertion).
schedule(s, ev) ==
    IF s[ev] THEN Fail(s, "EventAlreadyScheduled")
    ELSE [s EXCEPT ![ev] = TRUE]

\* --------------------------------------------------------------- decoder
getCommand(s) ==
    LET opcodeMask == ShiftLeft(1, numCmdOpcodeBits) - 1
        epidMask   == ShiftLeft(ShiftLeft(1, numCmdEpidBits) - 1,
                                numCmdOpcodeBits)
        offsetMask == ShiftLeft(ShiftLeft(1, numCmdOffsetBits) - 1,
                                numCmdOpcodeBits + numCmdEpidBits)
        reg        == readDtuReg(s, "COMMAND")
    IN  [opcode |-> BitAnd(reg, opcodeMask),
         epId   |-> ShiftRight(BitAnd(reg, epidMask), numCmdEpidBits),
         offset |-> ShiftRight(BitAnd(reg, offsetMask),
                               numCmdEpidBits + numCmdOpcodeBits)]

\* ------------------------------------------------------------ ring buffer
\* incrementReadPtr with the wrap test off by one slot (> for >=).
incrementReadPtr_WrapPastEnd(s, epId) ==
    LET readPtr      == readEpReg(s, epId, "BUFFER_READ_PTR")
        bufferAddr   == readEpReg(s, epId, "BUFFER_ADDR")
        bufferSize   == readEpReg(s, epId, "BUFFER_SIZE")
        messageCount == readEpReg(s, epId, "BUFFER_MESSAGE_COUNT")
        advanced     == readPtr + maxMessageSize
        newPtr       == IF advanced > bufferAddr + bufferSize * maxMessageSize
                        THEN bufferAddr ELSE advanced
    IN  IF messageCount = 0 THEN Fail(s, "BufferUnderflow")
        ELSE [setEpReg(setEpReg(s, epId, "BUFFER_READ_PTR", newPtr),
                       epId, "BUFFER_MESSAGE_COUNT", messageCount - 1)
                EXCEPT !.nConsumed[epId] = @ + 1]

\* incrementReadPtr that moves the pointer and leaves messageCount alone.
incrementReadPtr_KeepsCount(s, epId) ==
    LET readPtr      == readEpReg(s, epId, "BUFFER_READ_PTR")
        bufferAddr   == readEpReg(s, epId, "BUFFER_ADDR")
        bufferSize   == readEpReg(s, epId, "BUFFER_SIZE")
        messageCount == readEpReg(s, epId, "BUFFER_MESSAGE_COUNT")
        advanced     == readPtr + maxMessageSize
        newPtr       == IF advanced >= bufferAddr + bufferSize * maxMessageSize
                        THEN bufferAddr ELSE advanced
    IN  IF messageCount = 0 THEN Fail(s, "BufferUnderflow")
        ELSE [setEpReg(s, epId, "BUFFER_READ_PTR", newPtr)
                EXCEPT !.nConsumed[epId] = @ + 1]

incrementReadPtr(s, epId) ==
    LET readPtr      == readEpReg(s, epId, "BUFFER_READ_PTR")
        bufferAddr   == readEpReg(s, epId, "BUFFER_ADDR")
        bufferSize   == readEpReg(s, epId, "BUFFER_SIZE")
        messageCount == readEpReg(s, epId, "BUFFER_MESSAGE_COUNT")
        advanced     == readPtr + maxMessageSize
        newPtr       == IF advanced >= bufferAddr + bufferSize * maxMessageSize
                        THEN bufferAddr ELSE advanced
    IN  IF messageCount = 0 THEN Fail(s, "BufferUnderflow")
        ELSE [setEpReg(setEpReg(s, epId, "BUFFER_READ_PTR", newPtr),
                       epId, "BUFFER_MESSAGE_COUNT", messageCount - 1)
                EXCEPT !.nConsumed[epId] = @ + 1]

\* incrementWritePtr without its capacity assertion.
incrementWritePtr_NoCapacityCheck(s, epId) ==
    LET writePtr     == readEpReg(s, epId, "BUFFER_WRITE_PTR")
        bufferAddr   == readEpReg(s, epId, "BUFFER_ADDR")
        bufferSize   == readEpReg(s, epId, "BUFFER_SIZE")
        messageCount == readEpReg(s, epId, "BUFFER_MESSAGE_COUNT")
        advanced     == writePtr + maxMessageSize
        newPtr       == IF advanced >= bufferAddr + bufferSize * maxMessageSize
                        THEN bufferAddr ELSE advanced
    IN  [setEpReg(setEpReg(s, epId, "BUFFER_WRITE_PTR", newPtr),
                  epId, "BUFFER_MESSAGE_COUNT", messageCount + 1)
           EXCEPT !.nProduced[epId] = @ + 1]

\* incrementWritePtr that never wraps the pointer back to bufferAddr.
incrementWritePtr_NoWrap(s, epId) ==
    LET writePtr     == readEpReg(s, epId, "BUFFER_WRITE_PTR")
        bufferSize   == readEpReg(s, epId, "BUFFER_SIZE")
        messageCount == readEpReg(s, epId, "BUFFER_MESSAGE_COUNT")
    IN  IF ~(messageCount < bufferSize) THEN Fail(s, "BufferOverflow")
        ELSE [setEpReg(setEpReg(s, epId, "BUFFER_WRITE_PTR",
                                writePtr + maxMessageSize),
                       epId, "BUFFER_MESSAGE_COUNT", messageCount + 1)
                EXCEPT !.nProduced[epId] = @ + 1]

incrementWritePtr(s, epId) ==
    LET writePtr     == readEpReg(s, epId, "BUFFER_WRITE_PTR")
        bufferAddr   == readEpReg(s, epId, "BUFFER_ADDR")
        bufferSize   == readEpReg(s, epId, "BUFFER_SIZE")
        messageCount == readEpReg(s, epId, "BUFFER_MESSAGE_COUNT")
        advanced     == writePtr + maxMessageSize
        newPtr       == IF advanced >= bufferAddr + bufferSize * maxMessageSize
                        THEN bufferAddr ELSE advanced
    IN  IF ~(messageCount < bufferSize) THEN Fail(s, "BufferOverflow")
        ELSE [setEpReg(setEpReg(s, epId, "BUFFER_WRITE_PTR", newPtr),
                       epId, "BUFFER_MESSAGE_COUNT", messageCount + 1)
                EXCEPT !.nProduced[epId] = @ + 1]

\* ------------------------------------------------------ transmit pipeline
finishMessageTransmission(s) ==
    setDtuReg(setDtuReg(s, "COMMAND", 0), "STATUS", 0)

completeNocRequest(s, pkt) ==
    LET s1 == [releasePacket(s, pkt) EXCEPT !.ops[pkt.op.kind][pkt.op.i].nAck = @ + 1]
    IN  schedule(s1, "finishMessageTransmissionEvent")

\* A remote DTU takes the frame: its handleNocRequest pops the NoC sender
\* state, and the packet comes back as the response.
remoteAccept(s, pkt) == consumeSenderState(s, topSenderState(pkt).id)
remoteResponse(pkt) == makeResponse(popSenderState(pkt))

\* What a read of the endpoint registers of endpoint `epid` returns.  An
\* epid past the register file is a read out of bounds: `oob` is what it
\* yields (any values, or a trap when oob.trap is set).
epRegsOf(s, epid, oob) ==
    IF epid \in Endpoints THEN s.regFile.ep[epid] ELSE oob

completeLocalSpmRequest(s, pkt, oob) ==
    LET epid         == getCommand(s).epId
        regs         == epRegsOf(s, epid, oob)
        targetCoreId == regs.TARGET_COREID
        targetEpId   == regs.TARGET_EPID
        messageSize  == regs.MESSAGE_SIZE
        header       == [coreId |-> coreId % 256,
                         epId   |-> epid % 256,
                         length |-> messageSize % 65536]
        nocPkt0      == [generateRequest(pkt.op,
                                         getNocAddr(targetCoreId, targetEpId),
                                         messageSize + sizeofMessageHeader,
                                         "WriteReq")
                            EXCEPT !.header = header]
        s1           == releasePacket(s, pkt)
        senderState  == [id |-> <<pkt.op, "noc">>,
                         isMessage |-> TRUE, isMemoryRequest |-> FALSE]
        nocPkt       == pushSenderState(nocPkt0, senderState)
        s2           == [newSenderState(s1, senderState.id)
                            EXCEPT !.ops[pkt.op.kind][pkt.op.i].frames =
                                Append(@, [addr |-> nocPkt.addr,
                                           size |-> nocPkt.size,
                                           header |-> header])]
    IN  IF pkt.cmd # "ReadReq" THEN Fail(s, "NotARead")
        ELSE IF epid \notin Endpoints /\ oob.trap
             THEN Fail(s, "RegFileOutOfRange")
        ELSE IF pkt.size # messageSize THEN Fail(s, "SizeMismatch")
        ELSE IF atomicMode
             THEN completeNocRequest(remoteAccept(s2, nocPkt),
                                     remoteResponse(nocPkt))
             ELSE [s2 EXCEPT !.nocQueue = @ \cup {nocPkt}]

\* ------------------------------------------------------- receive pipeline
completeForwardedSpmRequest(s, pkt, epId) ==
    IF pkt.cmd # "WriteReq" THEN Fail(s, "NotAWrite")
    ELSE IF atomicMode
    THEN \* the call chain returns and the packet goes back to its sender
         releasePacket(incrementWritePtr(s, epId), pkt)
    ELSE LET s1 == [s EXCEPT !.incrementWritePtrEvent.epId = epId]
             s2 == IF s1.incrementWritePtrEvent.scheduled
                   THEN Fail(s1, "EventAlreadyScheduled")
                   ELSE [s1 EXCEPT !.incrementWritePtrEvent.scheduled = TRUE]
         IN  IF s2.fault # NoFault THEN s2
             ELSE \* schedNocResponse(pkt, ...)
                  [releasePacket(s2, pkt) EXCEPT !.ops[pkt.op.kind][pkt.op.i].nResp = @ + 1]

\* completeSpmRequest that reads the sender state and leaves it on the
\* packet.
completeSpmRequest_NoPop(s, pkt, oob) ==
    IF ~pkt.isResponse THEN Fail(s, "NotAResponse")
    ELSE IF pkt.senderState = <<>> THEN Fail(s, "NoSenderState")
    ELSE LET senderState == topSenderState(pkt)
             s1          == [s EXCEPT !.ops[pkt.op.kind][pkt.op.i].nSpmDone = @ + 1]
         IN  IF ~(senderState.isLocalRequest \/ senderState.isForwardedRequest)
                \/ (senderState.isLocalRequest /\ senderState.isForwardedRequest)
             THEN Fail(s1, "TagNotExclusive")
             ELSE IF senderState.isLocalRequest
                  THEN completeLocalSpmRequest(s1, pkt, oob)
                  ELSE completeForwardedSpmRequest(s1, pkt, senderState.epId)

\* ------------------------------------------- scratchpad request completion
completeSpmRequest(s, pkt, oob) ==
    IF ~pkt.isResponse THEN Fail(s, "NotAResponse")
    ELSE IF pkt.senderState = <<>> THEN Fail(s, "NoSenderState")
    ELSE LET senderState == topSenderState(pkt)
             pkt1        == popSenderState(pkt)
             s1          == [consumeSenderState(s, senderState.id)
                                EXCEPT !.ops[pkt.op.kind][pkt.op.i].nSpmDone = @ + 1]
         IN  IF ~(senderState.isLocalRequest \/ senderState.isForwardedRequest)
                \/ (senderState.isLocalRequest /\ senderState.isForwardedRequest)
             THEN Fail(s1, "TagNotExclusive")
             ELSE IF senderState.isLocalRequest
                  THEN completeLocalSpmRequest(s1, pkt1, oob)
                  ELSE completeForwardedSpmRequest(s1, pkt1, senderState.epId)

\* No endpoint register read in a synchronous chain is out of bounds.
NoOob == [trap |-> TRUE]

\* sendAtomicSpmRequest + completeSpmRequest, or schedSpmRequest.
issueSpmRequest(s, pkt) ==
    IF atomicMode THEN completeSpmRequest(s, makeResponse(pkt), NoOob)
    ELSE [s EXCEPT !.spmQueue = @ \cup {pkt}]

\* recvNocMessage without its buffer-full check.
recvNocMessage_NoFullCheck(s, pkt) ==
    LET epId         == pkt.addr % (2 ^ nocEpAddrBits)
        spmAddr      == readEpReg(s, epId, "BUFFER_WRITE_PTR")
        senderState  == [id |-> <<pkt.op, "spmF">>, epId |-> epId,
                         isLocalRequest |-> FALSE,
                         isForwardedRequest |-> TRUE]
        pkt1         == pushSenderState([pkt EXCEPT !.addr = spmAddr],
                                        senderState)
        s1           == [newSenderState(s, senderState.id)
                            EXCEPT !.ops[pkt.op.kind][pkt.op.i].ep = epId,
                                   !.ops[pkt.op.kind][pkt.op.i].spmAddr = spmAddr,
                                   !.ops[pkt.op.kind][pkt.op.i].spmSize = pkt.size,
                                   !.ops[pkt.op.kind][pkt.op.i].nSpmReq = @ + 1]
    IN  issueSpmRequest(s1, pkt1)

recvNocMessage(s, pkt) ==
    LET epId         == pkt.addr % (2 ^ nocEpAddrBits)
        messageCount == readEpReg(s, epId, "BUFFER_MESSAGE_COUNT")
        bufferSize   == readEpReg(s, epId, "BUFFER_SIZE")
        spmAddr      == readEpReg(s, epId, "BUFFER_WRITE_PTR")
        senderState  == [id |-> <<pkt.op, "spmF">>, epId |-> epId,
                         isLocalRequest |-> FALSE,
                         isForwardedRequest |-> TRUE]
        pkt1         == pushSenderState([pkt EXCEPT !.addr = spmAddr],
                                        senderState)
        s1           == [newSenderState(s, senderState.id)
                            EXCEPT !.ops[pkt.op.kind][pkt.op.i].ep = epId,
                                   !.ops[pkt.op.kind][pkt.op.i].spmAddr = spmAddr,
                                   !.ops[pkt.op.kind][pkt.op.i].spmSize = pkt.size,
                                   !.ops[pkt.op.kind][pkt.op.i].nSpmReq = @ + 1]
    IN  IF messageCount = bufferSize THEN Fail(s, "BufferOverflow")
        ELSE issueSpmRequest(s1, pkt1)

recvNocMemoryRequest(s, pkt) == Fail(s, "Unsupported")

handleNocRequest(s, pkt) ==
    IF pkt.cmd # "WriteReq" THEN Fail(s, "NotAWrite")
    ELSE IF pkt.senderState = <<>> THEN Fail(s, "NoSenderState")
    ELSE LET senderState == topSenderState(pkt)
             pkt1        == popSenderState(pkt)
             s1          == consumeSenderState(s, senderState.id)
         IN  IF ~(senderState.isMessage \/ senderState.isMemoryRequest)
                \/ (senderState.isMessage /\ senderState.isMemoryRequest)
             THEN Fail(s1, "TagNotExclusive")
             ELSE IF senderState.isMessage
                  THEN recvNocMessage(s1, pkt1)
                  ELSE recvNocMemoryRequest(s1, pkt1)

\* ------------------------------------------------------------- dispatcher
\* startMessageTransmission with the size check off by one (<= for <).
startMessageTransmission_SizeOffByOne(s, epId) ==
    LET messageAddr == readEpReg(s, epId, "MESSAGE_ADDR")
        messageSize == readEpReg(s, epId, "MESSAGE_SIZE")
        op          == [kind |-> "tx", i |-> Len(s.ops.tx) + 1]
        s1          == setDtuReg(s, "STATUS", 1)
        pkt0        == generateRequest(op, messageAddr, messageSize, "ReadReq")
        senderState == [id |-> <<op, "spmL">>, epId |-> epId,
                        isLocalRequest |-> TRUE,
                        isForwardedRequest |-> FALSE]
        pkt         == pushSenderState(pkt0, senderState)
        s2          == [newSenderState(s1, senderState.id)
                           EXCEPT !.ops.tx = Append(@,
                               [kind |-> "tx", ep |-> epId,
                                cmdEp |-> s.lastCmd.epId,
                                spmAddr |-> messageAddr,
                                spmSize |-> messageSize,
                                nSpmReq |-> 1, nSpmDone |-> 0,
                                frames |-> <<>>, nAck |-> 0, nResp |-> 0])]
    IN  IF ~(messageSize > 0) THEN Fail(s, "EmptyMessage")
        ELSE IF ~(messageSize + sizeofMessageHeader <= maxMessageSize)
             THEN Fail(s, "MessageTooLarge")
        ELSE issueSpmRequest(s2, pkt)

\* startMessageTransmission that sets isForwardedRequest as well.
startMessageTransmission_BothFlags(s, epId) ==
    LET messageAddr == readEpReg(s, epId, "MESSAGE_ADDR")
        messageSize == readEpReg(s, epId, "MESSAGE_SIZE")
        op          == [kind |-> "tx", i |-> Len(s.ops.tx) + 1]
        s1          == setDtuReg(s, "STATUS", 1)
        pkt0        == generateRequest(op, messageAddr, messageSize, "ReadReq")
        senderState == [id |-> <<op, "spmL">>, epId |-> epId,
                        isLocalRequest |-> TRUE,
                        isForwardedRequest |-> TRUE]
        pkt         == pushSenderState(pkt0, senderState)
        s2          == [newSenderState(s1, senderState.id)
                           EXCEPT !.ops.tx = Append(@,
                               [kind |-> "tx", ep |-> epId,
                                cmdEp |-> s.lastCmd.epId,
                                spmAddr |-> messageAddr,
                                spmSize |-> messageSize,
                                nSpmReq |-> 1, nSpmDone |-> 0,
                                frames |-> <<>>, nAck |-> 0, nResp |-> 0])]
    IN  IF ~(messageSize > 0) THEN Fail(s, "EmptyMessage")
        ELSE IF ~(messageSize + sizeofMessageHeader < maxMessageSize)
             THEN Fail(s, "MessageTooLarge")
        ELSE issueSpmRequest(s2, pkt)

startMessageTransmission(s, epId) ==
    LET messageAddr == readEpReg(s, epId, "MESSAGE_ADDR")
        messageSize == readEpReg(s, epId, "MESSAGE_SIZE")
        op          == [kind |-> "tx", i |-> Len(s.ops.tx) + 1]
        s1          == setDtuReg(s, "STATUS", 1)
        pkt0        == generateRequest(op, messageAddr, messageSize, "ReadReq")
        senderState == [id |-> <<op, "spmL">>, epId |-> epId,
                        isLocalRequest |-> TRUE,
                        isForwardedRequest |-> FALSE]
        pkt         == pushSenderState(pkt0, senderState)
        s2          == [newSenderState(s1, senderState.id)
                           EXCEPT !.ops.tx = Append(@,
                               [kind |-> "tx", ep |-> epId,
                                cmdEp |-> s.lastCmd.epId,
                                spmAddr |-> messageAddr,
                                spmSize |-> messageSize,
                                nSpmReq |-> 1, nSpmDone |-> 0,
                                frames |-> <<>>, nAck |-> 0, nResp |-> 0])]
    IN  IF ~(messageSize > 0) THEN Fail(s, "EmptyMessage")
        ELSE IF ~(messageSize + sizeofMessageHeader < maxMessageSize)
             THEN Fail(s, "MessageTooLarge")
        ELSE issueSpmRequest(s2, pkt)

startOperation(s, cmd) ==
    LET mode == readEpReg(s, cmd.epId, "MODE")
    IN  CASE mode = "RECEIVE_MESSAGE"  -> Fail(s, "InvalidEndpointMode")
          [] mode = "TRANSMIT_MESSAGE" -> startMessageTransmission(s, cmd.epId)
          [] OTHER                     -> Fail(s, "InvalidMode")

\* executeCommand whose switch has no default branch.
executeCommand_NoDefault(s) ==
    LET cmd == getCommand(s)
        s1  == [s EXCEPT !.nDispatch = @ + 1,
                         !.lastDispatch = [opcode |-> cmd.opcode,
                                           epId |-> cmd.epId]]
    IN  IF ~(cmd.epId < numEndpoints) THEN Fail(s1, "EndpointOutOfRange")
        ELSE CASE cmd.opcode = IDLE            -> s1
               [] cmd.opcode = START_OPERATION -> startOperation(s1, cmd)
               [] cmd.opcode = INC_READ_PTR    -> incrementReadPtr(s1, cmd.epId)
               [] OTHER                        -> s1

executeCommand(s) ==
    LET cmd == getCommand(s)
        s1  == [s EXCEPT !.nDispatch = @ + 1,
                         !.lastDispatch = [opcode |-> cmd.opcode,
                                           epId |-> cmd.epId]]
    IN  IF ~(cmd.epId < numEndpoints) THEN Fail(s1, "EndpointOutOfRange")
        ELSE CASE cmd.opcode = IDLE            -> s1
               [] cmd.opcode = START_OPERATION -> startOperation(s1, cmd)
               [] cmd.opcode = INC_READ_PTR    -> incrementReadPtr(s1, cmd.epId)
               [] OTHER                        -> Fail(s1, "InvalidOpcode")

\* ------------------------------------------------- local core's interface
\* RegFile::handleRequest: applies the access to the register file and
\* reports whether it was a write to the command register.
regFileHandleRequest(s, access) ==
    IF access.isWrite THEN setDtuReg(s, access.reg, access.value)
    ELSE s  \* a read puts the register's value into the response

commandWritten(access) == access.isWrite /\ access.reg = "COMMAND"

handleCpuRequest(s, access) ==
    LET s1 == regFileHandleRequest(s, access)
    IN  IF ~atomicMode
        THEN \* schedCpuResponse(pkt, when)
             IF commandWritten(access)
             THEN schedule(s1, "executeCommandEvent")
             ELSE s1
        ELSE IF commandWritten(access) THEN executeCommand(s1)
        ELSE s1

\* The word the local core writes for a command, by the layout of the
\* command register: opcode in the low bits, epid above it, offset on top.
EncodeCommand(cmd) ==
    cmd.opcode + ShiftLeft(cmd.epId, numCmdOpcodeBits)
               + ShiftLeft(cmd.offset, numCmdOpcodeBits + numCmdEpidBits)

\* The commands the local core writes: StartOperation and IncrementReadPtr
\* on every endpoint, StartOperation on the endpoint id one past the last,
\* Idle, and the opcode one past the last, on endpoint 0 and on the endpoint
\* id one past the last.
CoreCommands ==
    [opcode : {START_OPERATION, INC_READ_PTR}, epId : Endpoints, offset : {0}]
    \cup {[opcode |-> START_OPERATION, epId |-> numEndpoints, offset |-> 0],
          [opcode |-> IDLE, epId |-> 0, offset |-> 0],
          [opcode |-> INC_READ_PTR + 1, epId |-> 0, offset |-> 0],
          [opcode |-> INC_READ_PTR + 1, epId |-> numEndpoints, offset |-> 0]}

\* ------------------------------------------------- endpoint configurations
MessageAddrOf(e) == 16 * (e + 1)
BufferAddrOf(e) == 64 * (e + 1)

\* A transmit endpoint with a message of `size` bytes for endpoint 1 - e of
\* the remote core.
TxConfig(e, size) ==
    [MODE |-> "TRANSMIT_MESSAGE", MESSAGE_ADDR |-> MessageAddrOf(e),
     MESSAGE_SIZE |-> size, BUFFER_ADDR |-> 0, BUFFER_SIZE |-> 0,
     BUFFER_READ_PTR |-> 0, BUFFER_WRITE_PTR |-> 0,
     BUFFER_MESSAGE_COUNT |-> 0, TARGET_COREID |-> remoteCoreId,
     TARGET_EPID |-> 1 - e]

\* A receive endpoint: an empty buffer of `slots` slots, both pointers on
\* slot `first`.
RxConfig(e, slots, first) ==
    [MODE |-> "RECEIVE_MESSAGE", MESSAGE_ADDR |-> 0, MESSAGE_SIZE |-> 0,
     BUFFER_ADDR |-> BufferAddrOf(e), BUFFER_SIZE |-> slots,
     BUFFER_READ_PTR |-> BufferAddrOf(e) + first * maxMessageSize,
     BUFFER_WRITE_PTR |-> BufferAddrOf(e) + first * maxMessageSize,
     BUFFER_MESSAGE_COUNT |-> 0, TARGET_COREID |-> 0, TARGET_EPID |-> 0]

\* The largest message startMessageTransmission accepts.
MaxPayload == maxMessageSize - sizeofMessageHeader - 1

\* Endpoint 0: a transmit endpoint with an empty, a valid or an oversized
\* message (by one byte, or of maxMessageSize bytes), or a receive endpoint.
\* Endpoint 1: a transmit endpoint with a valid message, or a receive
\* endpoint of one slot or of MaxSlots slots.
EpConfigs(e) ==
    IF e = 0
    THEN {TxConfig(e, 0), TxConfig(e, MaxPayload), TxConfig(e, MaxPayload + 1),
          TxConfig(e, maxMessageSize), RxConfig(e, MaxSlots, 0)}
    ELSE {TxConfig(e, MaxPayload), RxConfig(e, 1, 0), RxConfig(e, MaxSlots, 0),
          RxConfig(e, MaxSlots, MaxSlots - 1)}

\* What an endpoint-register read past the register file may yield.
OobReads ==
    { [trap |-> TRUE, TARGET_COREID |-> 0, TARGET_EPID |-> 0,
       MESSAGE_SIZE |-> 0] }
    \cup [trap : {FALSE}, TARGET_COREID : {remoteCoreId},
          TARGET_EPID : {0}, MESSAGE_SIZE : {0, MaxPayload}]

\* ------------------------------------------------------------------- Init
Init ==
    /\ atomicMode \in BOOLEAN
    /\ \E w \in CmdBitsChoices :
         /\ numCmdOpcodeBits = w[1]
         /\ numCmdEpidBits = w[2]
    /\ epInit \in { f \in [Endpoints -> UNION {EpConfigs(e) : e \in Endpoints}] :
                      \A e \in Endpoints : f[e] \in EpConfigs(e) }
    /\ regFile = [dtu |-> [COMMAND |-> 0, STATUS |-> 0], ep |-> epInit]
    /\ executeCommandEvent = FALSE
    /\ finishMessageTransmissionEvent = FALSE
    /\ incrementWritePtrEvent = [scheduled |-> FALSE, epId |-> 0]
    /\ spmQueue = {}
    /\ nocQueue = {}
    /\ fault = NoFault
    /\ ops = [tx |-> <<>>, rx |-> <<>>]
    /\ tagPops = <<>>
    /\ tagLeaked = {}
    /\ nProduced = [e \in Endpoints |-> 0]
    /\ nConsumed = [e \in Endpoints |-> 0]
    /\ nCmdWrites = 0
    /\ nInbound = 0
    /\ nDispatch = 0
    /\ lastCmd = [opcode |-> IDLE, epId |-> 0, offset |-> 0]
    /\ lastDispatch = [opcode |-> IDLE, epId |-> 0]

\* ---------------------------------------------------------------- actions
\* The local core writes a command word to the command register.
CpuWriteCommand ==
    /\ fault = NoFault
    /\ nCmdWrites < MaxCmdWrites
    /\ \E cmd \in CoreCommands :
         Commit(handleCpuRequest(
                  [Cur EXCEPT !.nCmdWrites = @ + 1, !.lastCmd = cmd],
                  [isWrite |-> TRUE, reg |-> "COMMAND",
                   value |-> EncodeCommand(cmd)]))

\* The local core reads the status register.
CpuReadStatus ==
    /\ fault = NoFault
    /\ Commit(handleCpuRequest(Cur, [isWrite |-> FALSE, reg |-> "STATUS",
                                     value |-> 0]))

\* executeCommandEvent fires.
ExecuteCommandEventFires ==
    /\ fault = NoFault
    /\ executeCommandEvent
    /\ Commit(executeCommand([Cur EXCEPT !.executeCommandEvent = FALSE]))

\* The scratchpad answers one of the outstanding requests.
SpmResponse ==
    /\ fault = NoFault
    /\ \E pkt \in spmQueue :
         \E oob \in IF getCommand(Cur).epId \in Endpoints
                    THEN {NoOob} ELSE OobReads :
           Commit(completeSpmRequest([Cur EXCEPT !.spmQueue = @ \ {pkt}],
                                     makeResponse(pkt), oob))

\* A remote DTU took a frame of this DTU and its response arrives.
NocResponse ==
    /\ fault = NoFault
    /\ \E pkt \in nocQueue :
         Commit(completeNocRequest(
                  remoteAccept([Cur EXCEPT !.nocQueue = @ \ {pkt}], pkt),
                  remoteResponse(pkt)))

\* finishMessageTransmissionEvent fires.
FinishMessageTransmissionEventFires ==
    /\ fault = NoFault
    /\ finishMessageTransmissionEvent
    /\ Commit(finishMessageTransmission(
                [Cur EXCEPT !.finishMessageTransmissionEvent = FALSE]))

\* incrementWritePtrEvent fires.
IncrementWritePtrEventFires ==
    /\ fault = NoFault
    /\ incrementWritePtrEvent.scheduled
    /\ Commit(incrementWritePtr(
                [Cur EXCEPT !.incrementWritePtrEvent.scheduled = FALSE],
                incrementWritePtrEvent.epId))

\* The frame a remote DTU's completeLocalSpmRequest builds for endpoint epId.
RemoteFrame(op, epId) ==
    pushSenderState(
        [generateRequest(op, getNocAddr(coreId, epId),
                         3 + sizeofMessageHeader, "WriteReq")
            EXCEPT !.header = [coreId |-> remoteCoreId, epId |-> 0,
                               length |-> 3]],
        [id |-> <<op, "noc">>, isMessage |-> TRUE, isMemoryRequest |-> FALSE])

\* A message frame of a remote DTU arrives from the NoC.
NocInbound ==
    /\ fault = NoFault
    /\ nInbound < MaxInbound
    /\ \E epId \in Endpoints :
         LET op == [kind |-> "rx", i |-> Len(ops.rx) + 1]
             s0 == [newSenderState(Cur, <<op, "noc">>)
                       EXCEPT !.nInbound = @ + 1,
                              !.ops.rx = Append(@,
                                  [kind |-> "rx", ep |-> epId, cmdEp |-> epId,
                                   spmAddr |-> 0, spmSize |-> 0,
                                   nSpmReq |-> 0, nSpmDone |-> 0,
                                   frames |-> <<>>, nAck |-> 0, nResp |-> 0])]
         IN  Commit(handleNocRequest(s0, RemoteFrame(op, epId)))

Next ==
    \/ CpuWriteCommand
    \/ CpuReadStatus
    \/ ExecuteCommandEventFires
    \/ SpmResponse
    \/ NocResponse
    \/ FinishMessageTransmissionEventFires
    \/ IncrementWritePtrEventFires
    \/ NocInbound

Spec == Init /\ [][Next]_vars

\* ------------------------------------------------------------ properties
COMMAND == regFile.dtu["COMMAND"]
STATUS == regFile.dtu["STATUS"]

\* The transmit requests in flight: scratchpad reads and NoC writes.
TransmitSpmReads == {pkt \in spmQueue : pkt.op.kind = "tx"}
TransmitInProgress ==
    \/ TransmitSpmReads # {}
    \/ nocQueue # {}
    \/ finishMessageTransmissionEvent

\* C1: at most one transmit operation is outstanding: never two transmit
\* scratchpad reads or NoC writes in flight together.
C1_OneTransmitOutstanding ==
    Cardinality(TransmitSpmReads) + Cardinality(nocQueue) <= 1

\* The endpoint the core last commanded is a transmit endpoint with a
\* message of a valid size.
CommandedValidTransmit ==
    /\ lastCmd.opcode = START_OPERATION
    /\ lastCmd.epId \in Endpoints
    /\ epInit[lastCmd.epId].MODE = "TRANSMIT_MESSAGE"
    /\ epInit[lastCmd.epId].MESSAGE_SIZE > 0
    /\ epInit[lastCmd.epId].MESSAGE_SIZE + sizeofMessageHeader < maxMessageSize

\* C2: one StartOperation on a valid transmit endpoint, once dispatched,
\* has caused exactly one scratchpad read of messageSize bytes at
\* messageAddr; the read's completion one NoC frame of 4 + messageSize
\* bytes to (targetCoreId, targetEpId) with header {this core, the
\* commanding endpoint, messageSize}; and the command register is 0 and
\* the unit idle only after the acknowledgment.
C2_TransmitHappyPath ==
    (nCmdWrites = 1 /\ nInbound = 0 /\ nDispatch = 1 /\ CommandedValidTransmit)
    => LET e   == lastCmd.epId
           cfg == epInit[e]
       IN  /\ fault = NoFault
           /\ Len(ops.tx) = 1
           /\ ops.tx[1].nSpmReq = 1
           /\ ops.tx[1].spmAddr = cfg.MESSAGE_ADDR
           /\ ops.tx[1].spmSize = cfg.MESSAGE_SIZE
           /\ Len(ops.tx[1].frames) = ops.tx[1].nSpmDone
           /\ Len(ops.tx[1].frames) <= 1
           /\ \A i \in DOMAIN ops.tx[1].frames :
                ops.tx[1].frames[i] =
                    [addr   |-> getNocAddr(cfg.TARGET_COREID, cfg.TARGET_EPID),
                     size   |-> sizeofMessageHeader + cfg.MESSAGE_SIZE,
                     header |-> [coreId |-> coreId, epId |-> e,
                                 length |-> cfg.MESSAGE_SIZE]]
           /\ ops.tx[1].nAck <= Len(ops.tx[1].frames)
           /\ (STATUS = 0 \/ COMMAND = 0) => ops.tx[1].nAck = 1
           /\ (ops.tx[1].nAck = 1 /\ ~finishMessageTransmissionEvent)
                => (STATUS = 0 /\ COMMAND = 0)

\* C3: messageCount goes up by one with every produce and down by one with
\* every consume, and stays within [0, bufferSizeSlots].
C3_RingInvariant ==
    \A e \in Endpoints :
        /\ regFile.ep[e].BUFFER_MESSAGE_COUNT =
               epInit[e].BUFFER_MESSAGE_COUNT + nProduced[e] - nConsumed[e]
        /\ regFile.ep[e].BUFFER_MESSAGE_COUNT >= 0
        /\ regFile.ep[e].BUFFER_MESSAGE_COUNT <= regFile.ep[e].BUFFER_SIZE

C3_Witness ==
    /\ ~atomicMode
    /\ fault = NoFault
    /\ \E e \in Endpoints : nProduced[e] = 2 /\ nConsumed[e] = 1

\* ptr lies on a slot of the receive buffer of endpoint registers r.
OnSlot(r, ptr) ==
    /\ ptr >= r.BUFFER_ADDR
    /\ ptr < r.BUFFER_ADDR + r.BUFFER_SIZE * maxMessageSize
    /\ (ptr - r.BUFFER_ADDR) % maxMessageSize = 0

\* C4: an endpoint whose read and write pointer start on slots of its
\* buffer keeps both on slots of its buffer.
C4_PointersOnSlots ==
    \A e \in Endpoints :
        (/\ OnSlot(epInit[e], epInit[e].BUFFER_READ_PTR)
         /\ OnSlot(epInit[e], epInit[e].BUFFER_WRITE_PTR))
        => /\ OnSlot(regFile.ep[e], regFile.ep[e].BUFFER_READ_PTR)
           /\ OnSlot(regFile.ep[e], regFile.ep[e].BUFFER_WRITE_PTR)

\* Both pointers started on the last slot and have wrapped to the first.
C4_Witness ==
    \E e \in Endpoints :
        /\ epInit[e].BUFFER_SIZE >= 2
        /\ epInit[e].BUFFER_WRITE_PTR # epInit[e].BUFFER_ADDR
        /\ nProduced[e] >= 1
        /\ nConsumed[e] >= 1
        /\ regFile.ep[e].BUFFER_WRITE_PTR = regFile.ep[e].BUFFER_ADDR
        /\ regFile.ep[e].BUFFER_READ_PTR = regFile.ep[e].BUFFER_ADDR

\* C5: STATUS is busy exactly while a transmit operation is in progress
\* (its scratchpad read, its NoC write or its finish event is pending).
C5_StatusReflectsBusy ==
    fault = NoFault => (STATUS = 1 <=> TransmitInProgress)

\* The command the core last wrote is a valid {opcode, epId} pair.
ValidCommandWritten ==
    /\ nCmdWrites > 0
    /\ lastCmd.opcode \in {IDLE, START_OPERATION, INC_READ_PTR}
    /\ lastCmd.epId \in Endpoints

\* C6: every write of a valid command leads to exactly one dispatch, of
\* the opcode and endpoint id written (at once in atomic mode, when
\* executeCommandEvent fires in timed mode); nothing else dispatches.
C6_WriteLeadsToItsDispatch ==
    (fault = NoFault /\ ValidCommandWritten)
    => /\ atomicMode => ~executeCommandEvent
       /\ nDispatch = nCmdWrites - (IF executeCommandEvent THEN 1 ELSE 0)
       /\ ~executeCommandEvent
            => lastDispatch = [opcode |-> lastCmd.opcode,
                               epId |-> lastCmd.epId]

\* The sender states on the packets in flight.
TagsInFlight ==
    {pkt.senderState[i].id :
        pkt \in {q \in spmQueue \cup nocQueue : q.senderState # <<>>},
        i \in {1}}

\* C7: every sender state is popped once when its request completes: none
\* is popped twice, none is left on a packet that is deleted or handed
\* back, every packet in flight carries exactly its one unpopped sender
\* state, and a sender state on no packet in flight has been popped.
C7_TagsConsumedOnce ==
    /\ \A id \in DOMAIN tagPops : tagPops[id] <= 1
    /\ tagLeaked = {}
    /\ \A pkt \in spmQueue \cup nocQueue :
         /\ Len(pkt.senderState) = 1
         /\ pkt.senderState[1].id \in DOMAIN tagPops
         /\ tagPops[pkt.senderState[1].id] = 0
    /\ fault = NoFault
         => \A id \in DOMAIN tagPops :
              id \notin TagsInFlight => tagPops[id] = 1

\* A transmit and a receive have run to their ends in timed mode.
C7_Witness ==
    /\ ~atomicMode
    /\ fault = NoFault
    /\ \E i \in DOMAIN ops.tx : ops.tx[i].nAck = 1
    /\ \E i \in DOMAIN ops.rx : ops.rx[i].nResp = 1
    /\ spmQueue = {}
    /\ nocQueue = {}

\* C8: in atomic mode, when the handler that triggered a transmit or a
\* receive has returned, no event of the unit is pending and no request is
\* in flight.
C8_NothingPendingInAtomicMode ==
    atomicMode
    => /\ ~executeCommandEvent
       /\ ~finishMessageTransmissionEvent
       /\ ~incrementWritePtrEvent.scheduled
       /\ spmQueue = {}
       /\ nocQueue = {}

\* C9: a StartOperation command for a valid endpoint, written with the
\* register's layout, is decoded by getCommand to the triple written.
C9_CommandRoundTrip ==
    (/\ nCmdWrites > 0
     /\ lastCmd.opcode = START_OPERATION
     /\ lastCmd.epId \in Endpoints
     /\ COMMAND = EncodeCommand(lastCmd))
    => getCommand(Cur) = lastCmd

\* C10: a pointer that starts on bufferAddr is back on bufferAddr after
\* exactly bufferSizeSlots advances.
C10_PointerWraparound ==
    \A e \in Endpoints :
        epInit[e].BUFFER_SIZE >= 1
        => /\ (/\ epInit[e].BUFFER_WRITE_PTR = epInit[e].BUFFER_ADDR
               /\ nProduced[e] = epInit[e].BUFFER_SIZE)
              => regFile.ep[e].BUFFER_WRITE_PTR = epInit[e].BUFFER_ADDR
           /\ (/\ epInit[e].BUFFER_READ_PTR = epInit[e].BUFFER_ADDR
               /\ nConsumed[e] = epInit[e].BUFFER_SIZE)
              => regFile.ep[e].BUFFER_READ_PTR = epInit[e].BUFFER_ADDR

\* Both pointers of a buffer of several slots have gone round once.
C10_Witness ==
    \E e \in Endpoints :
        /\ epInit[e].BUFFER_SIZE >= 2
        /\ epInit[e].BUFFER_WRITE_PTR = epInit[e].BUFFER_ADDR
        /\ nProduced[e] = epInit[e].BUFFER_SIZE
        /\ nConsumed[e] = epInit[e].BUFFER_SIZE

\* The receive a NocInbound step has just started, after the step.
ArrivedRx == ops'.rx[Len(ops'.rx)]

\* C11: a frame that arrives for an endpoint whose messageCount equals its
\* bufferSize fails with BufferOverflow: no scratchpad write is issued and
\* the endpoint's registers (messageCount, writePtr) stay as they were.
C11_FullBufferRejects ==
    [][(nInbound' = nInbound + 1
        /\ regFile.ep[ArrivedRx.ep].BUFFER_MESSAGE_COUNT
             = regFile.ep[ArrivedRx.ep].BUFFER_SIZE)
       => /\ fault' = "BufferOverflow"
          /\ ArrivedRx.nSpmReq = 0
          /\ spmQueue' = spmQueue
          /\ regFile' = regFile
          /\ nProduced' = nProduced]_vars

\* A frame has arrived at a receive endpoint whose buffer was full and has
\* been turned away.
C11_Witness ==
    /\ fault = "BufferOverflow"
    /\ ops.rx # <<>>
    /\ ops.rx[Len(ops.rx)].nSpmReq = 0
    /\ LET e == ops.rx[Len(ops.rx)].ep
       IN  /\ regFile.ep[e].BUFFER_SIZE >= 1
           /\ regFile.ep[e].BUFFER_MESSAGE_COUNT = regFile.ep[e].BUFFER_SIZE

\* The step dispatches StartOperation on transmit endpoint e.
DispatchesStartOn(e) ==
    /\ nDispatch' = nDispatch + 1
    /\ lastDispatch' = [opcode |-> START_OPERATION, epId |-> e]
    /\ regFile.ep[e].MODE = "TRANSMIT_MESSAGE"

\* C12: StartOperation on a transmit endpoint with messageSize = 0 fails
\* with EmptyMessage, and with messageSize + sizeof(MessageHeader) not
\* below maxMessageSize fails with MessageTooLarge; no scratchpad request
\* and no NoC request is issued and the busy flag is not set.
C12_BadMessageSizeRejected ==
    [][\A e \in Endpoints :
         LET messageSize == regFile.ep[e].MESSAGE_SIZE
         IN  (DispatchesStartOn(e)
              /\ (messageSize = 0
                  \/ messageSize + sizeofMessageHeader >= maxMessageSize))
             => /\ fault' = IF messageSize = 0 THEN "EmptyMessage"
                            ELSE "MessageTooLarge"
                /\ spmQueue' = spmQueue
                /\ nocQueue' = nocQueue
                /\ ops'.tx = ops.tx
                /\ STATUS' = STATUS]_vars

\* StartOperation has been dispatched on a transmit endpoint whose message
\* is one byte too large, and has been turned away.
C12_Witness ==
    /\ fault = "MessageTooLarge"
    /\ lastDispatch.opcode = START_OPERATION
    /\ lastDispatch.epId \in Endpoints
    /\ regFile.ep[lastDispatch.epId].MESSAGE_SIZE = MaxPayload + 1
    /\ STATUS = 0
    /\ ops.tx = <<>>

\* The ring-buffer advance of a pointer of endpoint registers r.
Advance(r, ptr) ==
    IF ptr + maxMessageSize >= r.BUFFER_ADDR + r.BUFFER_SIZE * maxMessageSize
    THEN r.BUFFER_ADDR
    ELSE ptr + maxMessageSize

\* C13: IncrementReadPtr on an endpoint with messageCount = 0 fails with
\* BufferUnderflow and leaves the endpoint's readPtr and messageCount as
\* they were; with messageCount > 0 it advances readPtr by one slot, with
\* wraparound, and takes one off messageCount.
C13_IncrementReadPtr ==
    [][\A e \in Endpoints :
         (nDispatch' = nDispatch + 1
          /\ lastDispatch' = [opcode |-> INC_READ_PTR, epId |-> e])
         => IF regFile.ep[e].BUFFER_MESSAGE_COUNT = 0
            THEN /\ fault' = "BufferUnderflow"
                 /\ regFile'.ep = regFile.ep
            ELSE /\ fault' = NoFault
                 /\ regFile'.ep[e].BUFFER_READ_PTR =
                        Advance(regFile.ep[e], regFile.ep[e].BUFFER_READ_PTR)
                 /\ regFile'.ep[e].BUFFER_MESSAGE_COUNT =
                        regFile.ep[e].BUFFER_MESSAGE_COUNT - 1
                 /\ \A o \in Endpoints \ {e} :
                        regFile'.ep[o] = regFile.ep[o]
                 /\ regFile'.ep[e] =
                        [regFile.ep[e] EXCEPT
                            !.BUFFER_READ_PTR = regFile'.ep[e].BUFFER_READ_PTR,
                            !.BUFFER_MESSAGE_COUNT =
                                regFile'.ep[e].BUFFER_MESSAGE_COUNT]]_vars

\* A receive endpoint's only message has been consumed, with the read
\* pointer wrapping to bufferAddr, and the next IncrementReadPtr on it has
\* found the buffer empty.
C13_Witness ==
    /\ fault = "BufferUnderflow"
    /\ lastDispatch.opcode = INC_READ_PTR
    /\ lastDispatch.epId \in Endpoints
    /\ LET r == regFile.ep[lastDispatch.epId]
       IN  /\ r.MODE = "RECEIVE_MESSAGE"
           /\ nConsumed[lastDispatch.epId] = 1
           /\ r.BUFFER_MESSAGE_COUNT = 0
           /\ r.BUFFER_READ_PTR = r.BUFFER_ADDR
           /\ epInit[lastDispatch.epId].BUFFER_READ_PTR # r.BUFFER_ADDR

\* The step leaves the endpoint registers, the busy flag and the requests
\* in flight as they were.
DispatchChangesNothing ==
    /\ regFile'.ep = regFile.ep
    /\ STATUS' = STATUS
    /\ spmQueue' = spmQueue
    /\ nocQueue' = nocQueue

\* What a dispatch of an opcode outside {Idle, StartOperation,
\* IncrementReadPtr}, and a dispatch of Idle, come to.
InvalidOrIdleDispatch ==
    /\ lastDispatch'.opcode \notin {IDLE, START_OPERATION, INC_READ_PTR}
         => /\ fault' = "InvalidOpcode"
            /\ DispatchChangesNothing
    /\ lastDispatch'.opcode = IDLE
         => /\ fault' = NoFault
            /\ DispatchChangesNothing
            /\ finishMessageTransmissionEvent' = finishMessageTransmissionEvent
            /\ incrementWritePtrEvent' = incrementWritePtrEvent
            /\ ops' = ops
            /\ ~atomicMode => COMMAND' = COMMAND

\* C14, as stated: every dispatch of an opcode outside {Idle,
\* StartOperation, IncrementReadPtr} fails with InvalidOpcode and leaves the
\* endpoints, the busy flag and the requests in flight unchanged, and every
\* dispatch of Idle returns with no state change.
C14_InvalidOpcodeRejected ==
    [][nDispatch' = nDispatch + 1 => InvalidOrIdleDispatch]_vars

\* C14, amended: the same, for a command word whose endpoint id is below
\* numEndpoints (executeCommand checks the endpoint id first, and a word
\* that fails that check fails with EndpointOutOfRange whatever its opcode).
C14_InvalidOpcodeRejectedOnValidEndpoint ==
    [][(nDispatch' = nDispatch + 1 /\ lastDispatch'.epId \in Endpoints)
       => InvalidOrIdleDispatch]_vars

\* An opcode outside the three has been dispatched on a valid endpoint id
\* while a scratchpad request was in flight.
C14_Witness ==
    /\ fault = "InvalidOpcode"
    /\ lastDispatch.opcode = INC_READ_PTR + 1
    /\ lastDispatch.epId \in Endpoints
    /\ spmQueue # {}

\* C15: the sender state of every scratchpad request has exactly one of
\* isLocalRequest and isForwardedRequest set, and that of every NoC request
\* exactly one of isMessage and isMemoryRequest, so the assertions of
\* completeSpmRequest and handleNocRequest never fail.
C15_TagExclusivity ==
    /\ fault \notin {"TagNotExclusive", "NoSenderState"}
    /\ \A pkt \in spmQueue :
         /\ pkt.senderState # <<>>
         /\ topSenderState(pkt).isLocalRequest
              # topSenderState(pkt).isForwardedRequest
    /\ \A pkt \in nocQueue :
         /\ pkt.senderState # <<>>
         /\ topSenderState(pkt).isMessage
              # topSenderState(pkt).isMemoryRequest

\* The scratchpad read of a transmit and the scratchpad write of a received
\* frame have both completed, and a NoC request is still in flight.
C15_Witness ==
    /\ fault = NoFault
    /\ \E i \in DOMAIN ops.tx : ops.tx[i].nSpmDone = 1
    /\ \E i \in DOMAIN ops.rx : ops.rx[i].nSpmDone = 1
    /\ nocQueue # {}

\* The assertions of the legs of a transmit (completeLocalSpmRequest).
TransmitLegFaults == {"NotARead", "SizeMismatch", "RegFileOutOfRange"}

\* The transmits whose scratchpad read has been issued and whose NoC
\* acknowledgment has not arrived.
TransmitsUnfinished == {i \in DOMAIN ops.tx : ops.tx[i].nAck = 0}

\* C16: a transmit whose scratchpad read has been issued runs to its end:
\* there is no reachable state from which it can never finish.  Once the
\* simulation has halted nothing fires any more, so the states from which
\* an issued transmit never finishes are the halted states that hold an
\* unfinished transmit.  (Stated in the claim's favour: a halt by another
\* operation's fatal error is not held against it; only a halt in a leg of
\* the transmit itself is.)
C16_NoTransmitStranded ==
    ~(fault \in TransmitLegFaults /\ TransmitsUnfinished # {})

\* C17: in timed mode, when the scratchpad read of a transmit completes,
\* the endpoint id decoded from the command register is the endpoint id its
\* sender state has carried since issue, and the frame built is that
\* endpoint's: its sourceEpId, its target and its length.
C17_RereadMatchesTag ==
    [][\A pkt \in TransmitSpmReads :
         (~atomicMode /\ pkt \notin spmQueue')
         => LET epId == topSenderState(pkt).epId
                r    == regFile.ep[epId]
                tx   == ops'.tx[pkt.op.i]
            IN  /\ getCommand(Cur).epId = epId
                /\ tx.frames =
                     << [addr   |-> getNocAddr(r.TARGET_COREID, r.TARGET_EPID),
                         size   |-> sizeofMessageHeader + r.MESSAGE_SIZE,
                         header |-> [coreId |-> coreId, epId |-> epId,
                                     length |-> r.MESSAGE_SIZE]] >>]_vars

\* The received frames for endpoint e whose scratchpad write has completed.
RxStored(e) ==
    {i \in DOMAIN ops.rx : ops.rx[i].ep = e /\ ops.rx[i].nSpmDone = 1}

\* The advances of endpoint e's write pointer that are scheduled and have
\* not run yet.
AdvancePending(e) ==
    IF incrementWritePtrEvent.scheduled /\ incrementWritePtrEvent.epId = e
    THEN 1 ELSE 0

\* C18: every accepted inbound frame gets exactly one advance of its
\* endpoint's writePtr and messageCount, after its scratchpad write has
\* completed: the advances done and pending of an endpoint are as many as
\* its frames stored.  In timed mode each stored frame has exactly one NoC
\* response, sent when its advance is scheduled; in atomic mode the advance
\* is inline (never pending) and there is no response.
C18_OneAdvancePerFrame ==
    /\ \A e \in Endpoints :
         nProduced[e] + AdvancePending(e) = Cardinality(RxStored(e))
    /\ \A i \in DOMAIN ops.rx :
         ops.rx[i].nResp = IF atomicMode THEN 0 ELSE ops.rx[i].nSpmDone
    /\ atomicMode => ~incrementWritePtrEvent.scheduled

\* The received frames for endpoint e that passed the buffer-full check.
RxAccepted(e) ==
    {i \in DOMAIN ops.rx : ops.rx[i].ep = e /\ ops.rx[i].nSpmReq = 1}

\* Frame i is the RxRank(i)-th frame accepted for its endpoint.
RxRank(i) == Cardinality({k \in RxAccepted(ops.rx[i].ep) : k <= i})

\* C19: no stored and unconsumed message is overwritten: when two frames
\* accepted for the same endpoint have the same scratchpad slot as their
\* destination, the earlier one has been consumed by an IncrementReadPtr
\* (frames are consumed in the order they were accepted).
C19_NoOverwrite ==
    \A e \in Endpoints :
        \A i, j \in RxAccepted(e) :
            (i < j /\ ops.rx[i].spmAddr = ops.rx[j].spmAddr)
            => RxRank(i) <= nConsumed[e]

\* C20: whenever incrementWritePtr runs, messageCount of its endpoint is
\* below bufferSize: when the deferred incrementWritePtrEvent fires in
\* timed mode, and inline on the arrival of an accepted frame in atomic
\* mode.
C20_AdvanceFindsFreeSlot ==
    [][/\ (incrementWritePtrEvent.scheduled
           /\ ~incrementWritePtrEvent'.scheduled)
          => regFile.ep[incrementWritePtrEvent.epId].BUFFER_MESSAGE_COUNT
               < regFile.ep[incrementWritePtrEvent.epId].BUFFER_SIZE
       /\ (atomicMode /\ nInbound' = nInbound + 1 /\ ArrivedRx.nSpmReq = 1)
          => /\ regFile.ep[ArrivedRx.ep].BUFFER_MESSAGE_COUNT
                  < regFile.ep[ArrivedRx.ep].BUFFER_SIZE
             /\ fault' = NoFault]_vars

=============================================================================
